---- MODULE Spec2Model ----
(***************************************************************************)
(* A model of the beehive execution core:                                  *)
(*   - the per-bee transaction machine of the receive context              *)
(*     (localBee.BeginTx / CommitTx / AbortTx, Emit / SendToBee / ReplyTo) *)
(*   - the per-connection session of the stage's network server            *)
(*     (stage.handleConn, stage.listen).                                   *)
(* Collaborators whose code is outside the modelled sources (the Tx        *)
(* record's methods, the state layer, the replication service, the         *)
(* control loop) are modelled from their contracts and are driven with     *)
(* nondeterministic outcomes.                                              *)
(***************************************************************************)
EXTENDS Integers, Sequences, FiniteSets, TLC

\* ------------------------------------------------------------------ bounds
\* Number of collaborator calls after which no new bee operation starts.
MaxCalls == 4
\* Number of distinct Msg objects the bee creates.
MaxMsgs == 2
\* Highest colony generation reached by migrations.
MaxGen == 2
\* Number of Msg records a client sends after the handshake.
MaxStream == 2
\* Number of writes a handler makes inside one transaction.
MaxWrites == 1
\* Number of failed accepts of the listener.
MaxAcceptErrs == 1
\* Number of blocking calls a bee makes on its control loop.
MaxCmds == 1

\* ----------------------------------------------------------------- values
\* The BeeID of the modelled bee, and the zero BeeID{}.
Self == 1
NoBee == 0
Peers == {2}
Values == {1}
\* The replication factors an app is configured with.
Factors == {1, 2}
NoOps == << >>

VARIABLES
    tx,         \* b.tx: the bee's Transaction record
    colonyGen,  \* b.beeColony.Generation
    rf,         \* b.app.ReplicationFactor()
    sent,       \* messages handed to b.hive.emitMsg, in order
    st,         \* the bee's TxState (state layer)
    calls,      \* the calls made on the collaborators, in order
    nextMsg,    \* identity of the next Msg object created
    fatal,      \* glog.Fatalf was reached: the process is gone
    begun,      \* history: the Seq of every transaction BeginTx opened, in order
    dropped,    \* history: ids of the messages discarded by a call of AbortTx
    last,       \* the operation that ran last: its name, result and pre-state
    conn,       \* per connection: the session handleConn runs for it
    ctrlCh,     \* per actor: the commands sent on mapper.ctrlCh and not yet taken
    resCh,      \* per connection: the result sent on its resCh and not yet taken
    queue,      \* per receiver: the msgAndHandler pairs enqueued, in order
    acceptErrs, \* the errors l.Accept returned to the listen loop so far
    caller,     \* per bee: its blocking call on the control loop, and the result
    qee         \* per actor: the control loop's lock table, last spawned id and
                \* the commands it processed, in order

stageVars == <<conn, ctrlCh, resCh, queue, acceptErrs, caller, qee>>

beeVars == <<tx, colonyGen, rf, sent, st, calls, nextMsg, fatal, begun, dropped, last>>

\* --------------------------------------------------------- the Tx record
TxClosed == "Closed"
TxOpen == "Open"

IsOpen(t) == t.Status = TxOpen

AddMsg(t, m) == [t EXCEPT !.Msgs = Append(@, m)]

Reset(t) == [t EXCEPT !.Status = TxClosed, !.Msgs = << >>, !.Ops = NoOps]

\* ------------------------------------------------------ the state layer
\* st.open: transactional tracking is on; st.ops: the writes since BeginTx;
\* st.dict: the committed value of the one modelled key.
StBeginTx(s, ok) ==
    IF ok /\ ~s.open THEN [s EXCEPT !.open = TRUE, !.ops = NoOps] ELSE s

StBeginErr(s, ok) == ~(ok /\ ~s.open)

StPut(s, v) ==
    IF s.open THEN [s EXCEPT !.ops = Append(@, v)] ELSE [s EXCEPT !.dict = v]

StTx(s) == s.ops

StCommitTx(s, ok) ==
    IF ok /\ s.open
    THEN [s EXCEPT !.open = FALSE, !.ops = NoOps,
                   !.dict = IF s.ops = NoOps THEN @ ELSE s.ops[Len(s.ops)]]
    ELSE s

StAbortTx(s) == [s EXCEPT !.open = FALSE, !.ops = NoOps]

\* ------------------------------------------------------- messages
newMsgFromData(id, from, to) == [id |-> id, from |-> from, to |-> to]

\* The bee as one value, so that the steps of an operation compose.
Bee == [tx |-> tx, sent |-> sent, st |-> st, calls |-> calls, fatal |-> fatal,
        err |-> "nil"]

Call(b, c) == [b EXCEPT !.calls = Append(@, c)]

doEmit(b, m) ==
    Call([b EXCEPT !.sent = Append(@, m)], [op |-> "emitMsg", arg |-> m.id])

\* bufferOrEmit with the IsOpen test dropped: every message is sent at once.
bufferOrEmitAlways(b, m) == doEmit(b, m)

bufferOrEmit(b, m) ==
    IF ~IsOpen(b.tx) THEN doEmit(b, m)
    ELSE [b EXCEPT !.tx = AddMsg(@, m)]

Emit(b, id) == bufferOrEmit(b, newMsgFromData(id, Self, NoBee))

SendToBee(b, id, to) == bufferOrEmit(b, newMsgFromData(id, Self, to))

\* ReplyTo with the NoReply test dropped.
ReplyToNoCheck(b, thatMsg, id) == SendToBee(b, id, thatMsg.from)

ReplyTo(b, thatMsg, id) ==
    IF thatMsg.noReply THEN [b EXCEPT !.err = "noreply"]
    ELSE SendToBee(b, id, thatMsg.from)

\* ------------------------------------------------- the transaction machine
\* BeginTx with the IsOpen test dropped.
BeginTxNoGuard(b, gen, stOk) ==
    LET b1 == Call([b EXCEPT !.st = StBeginTx(@, stOk)],
                   [op |-> "StBeginTx", arg |-> b.tx.Seq])
    IN  IF StBeginErr(b.st, stOk) THEN [b1 EXCEPT !.err = "state"]
        ELSE [b1 EXCEPT !.tx.Status = TxOpen,
                        !.tx.Generation = gen,
                        !.tx.Seq = @ + 1]

\* BeginTx with the Seq increment dropped.
BeginTxNoSeq(b, gen, stOk) ==
    IF IsOpen(b.tx) THEN [b EXCEPT !.err = "open"]
    ELSE LET b1 == Call([b EXCEPT !.st = StBeginTx(@, stOk)],
                        [op |-> "StBeginTx", arg |-> b.tx.Seq])
         IN  IF StBeginErr(b.st, stOk) THEN [b1 EXCEPT !.err = "state"]
             ELSE [b1 EXCEPT !.tx.Status = TxOpen,
                             !.tx.Generation = gen]

BeginTx(b, gen, stOk) ==
    IF IsOpen(b.tx) THEN [b EXCEPT !.err = "open"]
    ELSE LET b1 == Call([b EXCEPT !.st = StBeginTx(@, stOk)],
                        [op |-> "StBeginTx", arg |-> b.tx.Seq])
         IN  IF StBeginErr(b.st, stOk) THEN [b1 EXCEPT !.err = "state"]
             ELSE [b1 EXCEPT !.tx.Status = TxOpen,
                             !.tx.Generation = gen,
                             !.tx.Seq = @ + 1]

RECURSIVE emitAll(_, _)
emitAll(b, ms) ==
    IF ms = << >> THEN b ELSE emitAll(doEmit(b, Head(ms)), Tail(ms))

\* emitTxMsgs ranging over the buffer from its second element.
emitTxMsgsSkipFirst(b) ==
    IF b.tx.Msgs = << >> THEN b ELSE emitAll(b, Tail(b.tx.Msgs))

emitTxMsgs(b) == emitAll(b, b.tx.Msgs)

\* doCommitTx without the deferred reset of the transaction record.
doCommitTxNoReset(b, stOk) ==
    LET b1 == emitTxMsgs(b)
        b2 == Call([b1 EXCEPT !.st = StCommitTx(@, stOk)],
                   [op |-> "StCommitTx", arg |-> b.tx.Seq])
    IN  [b2 EXCEPT !.err = IF stOk THEN "nil" ELSE "state"]

doCommitTx(b, stOk) ==
    LET b1 == emitTxMsgs(b)
        b2 == Call([b1 EXCEPT !.st = StCommitTx(@, stOk)],
                   [op |-> "StCommitTx", arg |-> b.tx.Seq])
    IN  [b2 EXCEPT !.tx = Reset(@), !.err = IF stOk THEN "nil" ELSE "state"]

replicateTx(b, ok) ==
    [Call(b, [op |-> "replicateTx",
              arg |-> [Generation |-> b.tx.Generation, Seq |-> b.tx.Seq,
                       Msgs |-> b.tx.Msgs, Ops |-> b.tx.Ops]])
       EXCEPT !.err = IF ok THEN "nil" ELSE "replication"]

notifyCommitTx(b, seq, ok) ==
    [Call(b, [op |-> "notifyCommitTx", arg |-> seq])
       EXCEPT !.err = IF ok THEN "nil" ELSE "notify"]

\* AbortTx without the reset of the transaction record.
AbortTxNoReset(b, stOk) ==
    IF ~IsOpen(b.tx) THEN [b EXCEPT !.err = "nil"]
    ELSE LET b2 == Call([b EXCEPT !.st = StAbortTx(@)],
                        [op |-> "StAbortTx", arg |-> b.tx.Seq])
         IN  [b2 EXCEPT !.err = IF stOk THEN "nil" ELSE "state"]

AbortTx(b, stOk) ==
    IF ~IsOpen(b.tx) THEN [b EXCEPT !.err = "nil"]
    ELSE LET b1 == [b EXCEPT !.tx = Reset(@)]
             b2 == Call([b1 EXCEPT !.st = StAbortTx(@)],
                        [op |-> "StAbortTx", arg |-> b.tx.Seq])
         IN  [b2 EXCEPT !.err = IF stOk THEN "nil" ELSE "state"]

\* CommitTx returning the local commit's error instead of ending the process.
CommitTxReturnsLocalErr(b, gen, factor, in) ==
    IF ~IsOpen(b.tx) THEN [b EXCEPT !.err = "nil"]
    ELSE LET b1 == [b EXCEPT !.tx.Generation = gen]
             b2 == IF factor < 2 THEN [doCommitTx(b1, in.c1) EXCEPT !.err = "nil"]
                                 ELSE b1
             b3 == [b2 EXCEPT !.tx.Ops = StTx(b2.st)]
             b4 == replicateTx(b3, in.r)
         IN  IF b4.err # "nil"
             THEN [AbortTx(b4, in.a) EXCEPT !.err = b4.err]
             ELSE LET b5 == doCommitTx(b4, in.c2)
                  IN  IF b5.err # "nil"
                      THEN b5
                      ELSE [notifyCommitTx(b5, b5.tx.Seq, in.n) EXCEPT !.err = "nil"]

\* CommitTx committing locally before it replicates, whatever the factor.
CommitTxLocalFirst(b, gen, factor, in) ==
    IF ~IsOpen(b.tx) THEN [b EXCEPT !.err = "nil"]
    ELSE LET b1 == [b EXCEPT !.tx.Generation = gen]
             b2 == [doCommitTx(b1, in.c1) EXCEPT !.err = "nil"]
             b3 == [b2 EXCEPT !.tx.Ops = StTx(b2.st)]
             b4 == replicateTx(b3, in.r)
         IN  IF b4.err # "nil"
             THEN [AbortTx(b4, in.a) EXCEPT !.err = b4.err]
             ELSE LET b5 == doCommitTx(b4, in.c2)
                  IN  IF b5.err # "nil"
                      THEN [b5 EXCEPT !.fatal = TRUE, !.err = "fatal"]
                      ELSE [notifyCommitTx(b5, b5.tx.Seq, in.n) EXCEPT !.err = "nil"]

\* CommitTx returning the notification's error to the caller.
CommitTxNotifyErr(b, gen, factor, in) ==
    IF ~IsOpen(b.tx) THEN [b EXCEPT !.err = "nil"]
    ELSE LET b1 == [b EXCEPT !.tx.Generation = gen]
             b2 == IF factor < 2 THEN [doCommitTx(b1, in.c1) EXCEPT !.err = "nil"]
                                 ELSE b1
             b3 == [b2 EXCEPT !.tx.Ops = StTx(b2.st)]
             b4 == replicateTx(b3, in.r)
         IN  IF b4.err # "nil"
             THEN [AbortTx(b4, in.a) EXCEPT !.err = b4.err]
             ELSE LET b5 == doCommitTx(b4, in.c2)
                  IN  IF b5.err # "nil"
                      THEN [b5 EXCEPT !.fatal = TRUE, !.err = "fatal"]
                      ELSE notifyCommitTx(b5, b5.tx.Seq, in.n)

\* in: the outcomes of the collaborators CommitTx calls, in call order:
\* in.c1 the state layer's commit on the fast path, in.r replication,
\* in.a the state layer's abort, in.c2 the state layer's commit after
\* replication, in.n the commit notification.
CommitTx(b, gen, factor, in) ==
    IF ~IsOpen(b.tx) THEN [b EXCEPT !.err = "nil"]
    ELSE LET b1 == [b EXCEPT !.tx.Generation = gen]
             b2 == IF factor < 2 THEN [doCommitTx(b1, in.c1) EXCEPT !.err = "nil"]
                                 ELSE b1
             b3 == [b2 EXCEPT !.tx.Ops = StTx(b2.st)]
             b4 == replicateTx(b3, in.r)
         IN  IF b4.err # "nil"
             THEN [AbortTx(b4, in.a) EXCEPT !.err = b4.err]
             ELSE LET b5 == doCommitTx(b4, in.c2)
                  IN  IF b5.err # "nil"
                      THEN [b5 EXCEPT !.fatal = TRUE, !.err = "fatal"]
                      ELSE [notifyCommitTx(b5, b5.tx.Seq, in.n) EXCEPT !.err = "nil"]

\* ----------------------------------------------------- the bee's steps
NoArg == [id |-> 0, to |-> NoBee, noReply |-> FALSE]

\* The bee's variables after an operation that took the bee to b.
Ret(op, arg, b) ==
    /\ tx' = b.tx
    /\ sent' = b.sent
    /\ st' = b.st
    /\ calls' = b.calls
    /\ fatal' = b.fatal
    /\ begun' = IF op = "BeginTx" /\ b.err = "nil" THEN Append(begun, b.tx.Seq)
                 ELSE begun
    /\ dropped' = IF op = "AbortTx" /\ IsOpen(tx)
                   THEN dropped \cup {tx.Msgs[i].id : i \in 1..Len(tx.Msgs)}
                   ELSE dropped
    /\ last' = [op |-> op, err |-> b.err, arg |-> arg, pre |-> tx,
                prest |-> st, nsent |-> Len(sent), ncalls |-> Len(calls),
                gen |-> colonyGen]
    /\ UNCHANGED <<colonyGen, rf, stageVars>>

Running == ~fatal /\ Len(calls) < MaxCalls

\* The outcomes of the collaborator calls one CommitTx can make; the outcome
\* of a call that is not made is not drawn.
Outcomes(factor) ==
    { in \in [c1 : BOOLEAN, r : BOOLEAN, a : BOOLEAN, c2 : BOOLEAN, n : BOOLEAN] :
        /\ (factor >= 2 => in.c1)
        /\ (in.r => in.a)
        /\ (~in.r => in.c2 /\ in.n)
        /\ (~in.c2 => in.n) }

\* The outcomes recorded for a CommitTx that made no call.
NoCalls == [c1 |-> TRUE, r |-> TRUE, a |-> TRUE, c2 |-> TRUE, n |-> TRUE]

CallBeginTx ==
    /\ Running
    /\ \E stOk \in BOOLEAN : Ret("BeginTx", NoArg, BeginTx(Bee, colonyGen, stOk))
    /\ UNCHANGED nextMsg

CallCommitTx ==
    /\ Running
    /\ \E in \in Outcomes(rf) :
           Ret("CommitTx", IF IsOpen(tx) THEN in ELSE NoCalls,
               CommitTx(Bee, colonyGen, rf, in))
    /\ UNCHANGED nextMsg

CallAbortTx ==
    /\ Running
    /\ \E stOk \in BOOLEAN : Ret("AbortTx", NoArg, AbortTx(Bee, stOk))
    /\ UNCHANGED nextMsg

CallEmit ==
    /\ Running
    /\ nextMsg <= MaxMsgs
    /\ Ret("Emit", [NoArg EXCEPT !.id = nextMsg], Emit(Bee, nextMsg))
    /\ nextMsg' = nextMsg + 1

CallSendToBee ==
    /\ Running
    /\ nextMsg <= MaxMsgs
    /\ \E to \in Peers :
           Ret("SendToBee", [NoArg EXCEPT !.id = nextMsg, !.to = to],
               SendToBee(Bee, nextMsg, to))
    /\ nextMsg' = nextMsg + 1

CallReplyTo ==
    /\ Running
    /\ nextMsg <= MaxMsgs
    /\ \E from \in Peers, nr \in BOOLEAN :
           /\ Ret("ReplyTo", [id |-> nextMsg, to |-> from, noReply |-> nr],
                  ReplyTo(Bee, [from |-> from, noReply |-> nr], nextMsg))
           /\ nextMsg' = IF nr THEN nextMsg ELSE nextMsg + 1

\* A handler writes the modelled key through the bee's Dict.
CallPut ==
    /\ Running
    /\ Len(st.ops) < MaxWrites
    /\ \E v \in Values :
           Ret("Put", [NoArg EXCEPT !.id = v], [Bee EXCEPT !.st = StPut(@, v)])
    /\ UNCHANGED nextMsg

\* A migration or leadership change bumps the colony's generation. Only the
\* bumps that fall between a BeginTx and the end of its transaction are
\* drawn: the machine reads the generation at BeginTx and at CommitTx alone.
Migrate ==
    /\ colonyGen < MaxGen
    /\ IsOpen(tx)
    /\ colonyGen' = colonyGen + 1
    /\ UNCHANGED <<tx, rf, sent, st, calls, nextMsg, fatal, begun, dropped, last,
                   stageVars>>

InitBee ==
    /\ tx = [Status |-> TxClosed, Generation |-> 0, Seq |-> 0,
             Msgs |-> << >>, Ops |-> NoOps]
    /\ colonyGen = 1
    /\ rf \in Factors
    /\ sent = << >>
    /\ st = [open |-> FALSE, ops |-> NoOps, dict |-> 0]
    /\ calls = << >>
    /\ nextMsg = 1
    /\ fatal = FALSE
    /\ begun = << >>
    /\ dropped = {}
    /\ last = [op |-> "init", err |-> "nil", arg |-> NoArg, pre |-> tx,
               prest |-> st, nsent |-> 0, ncalls |-> 0, gen |-> colonyGen]

NextBee ==
    \/ CallBeginTx
    \/ CallCommitTx
    \/ CallAbortTx
    \/ CallEmit
    \/ CallSendToBee
    \/ CallReplyTo
    \/ CallPut
    \/ Migrate

\* --------------------------------------------------- the stage's registry
Conns == {1, 2}
\* The actor names a client may send; Actors are the ones the stage knows.
Names == {"Counter", "Router", "Ghost"}
Actors == {"Counter", "Router"}
RcvrIds == {7, 999}
\* The receivers the control loops can resolve.
Registered == {[actor |-> "Counter", id |-> 7], [actor |-> "Router", id |-> 7]}
MsgTypes == {"Incr", "Stat"}
\* s.mappers: per message type the registered (actor, handler) pairs, in order.
Mappers ==
    [t \in MsgTypes |->
        IF t = "Incr"
        THEN << [actor |-> "Counter", handler |-> "h1"],
                [actor |-> "Router", handler |-> "h2"],
                [actor |-> "Counter", handler |-> "h3"] >>
        ELSE << [actor |-> "Router", handler |-> "h4"],
                [actor |-> "Counter", handler |-> "h5"] >>]

\* The bees (their result slots share the name space of the connections'), the
\* actor whose control loop they call, and the cells they lock.
BeeCallers == {3, 4}
Callers == Conns \cup BeeCallers
BeeActor == "Counter"
Cells == {"x", "y"}
CellSets == {{"x"}, {"x", "y"}}
DetachedHandlers == {1}

ZeroId == [ActorName |-> "", Id |-> 0]
NoRes == [kind |-> "none", actor |-> "", id |-> 0]
NilRes == [kind |-> "nil", actor |-> "", id |-> 0]
NoRcvr == [actor |-> "", id |-> 0]

\* What a client writes as its handshake: a RcvrId record, or bytes that do
\* not decode: nothing of the record, or its ActorName and then bytes that
\* fail.
RawIds ==
    {[ok |-> TRUE, ActorName |-> a, Id |-> i] : a \in Names, i \in RcvrIds}
        \cup {[ok |-> FALSE, ActorName |-> a, Id |-> 0] : a \in Names \cup {""}}

\* gob's Decode into id: it stores field by field, so on an error id holds
\* the fields decoded before it and the others keep the value they had.
DecodeRcvrId(raw, id) ==
    IF raw.ok THEN [ActorName |-> raw.ActorName, Id |-> raw.Id]
    ELSE [id EXCEPT !.ActorName = IF raw.ActorName = "" THEN @ ELSE raw.ActorName]

\* s.actor(name): the error result.
actorErr(name) == name \notin Actors

\* The control loop's findRcvr.
findRcvr(a, id) ==
    IF [actor |-> a, id |-> id] \in Registered
    THEN [kind |-> "rcvr", actor |-> a, id |-> id]
    ELSE NilRes

\* The command of a session, carrying the session's own result channel.
routineCmd(c, id) == [cmd |-> "findRcvr", arg |-> id, cells |-> {}, from |-> c]

\* Lock's command built with a result channel shared by all bees.
lockMappedCellsCmdSharedCh(k, ms) ==
    [cmd |-> "lock", arg |-> 0, cells |-> ms, from |-> 3]

\* The command of Lock, carrying the result channel made for this call.
lockMappedCellsCmd(k, ms) ==
    [cmd |-> "lock", arg |-> 0, cells |-> ms, from |-> k]

\* The command of StartDetached, carrying the result channel made for this call.
startDetachedCmd(k, h) ==
    [cmd |-> "startDetached", arg |-> h, cells |-> {}, from |-> k]

\* The control loop's lockMappedCells: the cells become the caller's unless
\* another bee owns one of them.
lockCells(q, cmd) ==
    IF \E x \in cmd.cells : q.locks[x] \notin {0, cmd.from}
    THEN [q |-> q, res |-> [kind |-> "conflict", actor |-> "", id |-> 0]]
    ELSE [q |-> [q EXCEPT !.locks = [x \in Cells |->
                                       IF x \in cmd.cells THEN cmd.from ELSE @[x]]],
          res |-> [kind |-> "ok", actor |-> "", id |-> 0]]

\* The control loop's startDetached: a new bee, with the next id.
spawnDetached(q, a, cmd) ==
    [q |-> [q EXCEPT !.lastId = @ + 1],
     res |-> [kind |-> "bee", actor |-> a, id |-> q.lastId + 1]]

\* One command processed by the control loop of actor a: its state after
\* the command and the one result.
process(q, a, cmd) ==
    LET r == CASE cmd.cmd = "findRcvr" -> [q |-> q, res |-> findRcvr(a, cmd.arg)]
               [] cmd.cmd = "lock" -> lockCells(q, cmd)
               [] cmd.cmd = "startDetached" -> spawnDetached(q, a, cmd)
    IN  [r EXCEPT !.q.served = Append(@, cmd)]

\* ------------------------------------------------------ stage.handleConn
\* The session up to the send on ctrlCh: the session record after it.
acceptedConn(raw) ==
    LET id == DecodeRcvrId(raw, ZeroId)
    IN  [pc |-> IF actorErr(id.ActorName) THEN "closed" ELSE "waitRes",
         id |-> id, rcvr |-> NoRcvr, written |-> << >>,
         handlers |-> [t \in MsgTypes |-> [ok |-> FALSE, hs |-> << >>]],
         ndec |-> 0, types |-> << >>, failed |-> FALSE, badId |-> ~raw.ok]

\* The session taking res off its resCh.
onResultAckFirst(cn, res) ==
    [cn EXCEPT !.written = Append(@, TRUE),
               !.pc = IF res.kind = "nil" THEN "closed" ELSE "loop",
               !.rcvr = [actor |-> res.actor, id |-> res.id]]

onResult(cn, res) ==
    IF res.kind = "nil" THEN [cn EXCEPT !.pc = "closed"]
    ELSE [cn EXCEPT !.rcvr = [actor |-> res.actor, id |-> res.id],
                    !.written = Append(@, TRUE),
                    !.pc = "loop"]

\* The handler selection without the test of the actor's name.
RECURSIVE handlersOfAnyActor(_, _)
handlersOfAnyActor(mhs, name) ==
    IF mhs = << >> THEN << >>
    ELSE <<Head(mhs).handler>> \o handlersOfAnyActor(Tail(mhs), name)

\* The handlers of s.mappers[t] whose actor is the session's.
RECURSIVE handlersOf(_, _)
handlersOf(mhs, name) ==
    IF mhs = << >> THEN << >>
    ELSE IF Head(mhs).actor = name
         THEN <<Head(mhs).handler>> \o handlersOf(Tail(mhs), name)
         ELSE handlersOf(Tail(mhs), name)

\* The session's handler list for type t, and the cache after the lookup.
lookupHandlers(cn, t) ==
    IF cn.handlers[t].ok THEN cn
    ELSE [cn EXCEPT !.handlers[t] =
             [ok |-> TRUE, hs |-> handlersOf(Mappers[t], cn.id.ActorName)]]

\* The enque loop putting each pair at the head of the queue.
RECURSIVE enqueAllFront(_, _, _)
enqueAllFront(q, m, hs) ==
    IF hs = << >> THEN q
    ELSE enqueAllFront(<<[msg |-> m, handler |-> Head(hs)]>> \o q, m, Tail(hs))

\* rcvr.enque for every handler of hs, in order.
RECURSIVE enqueAll(_, _, _)
enqueAll(q, m, hs) ==
    IF hs = << >> THEN q
    ELSE enqueAll(Append(q, [msg |-> m, handler |-> Head(hs)]), m, Tail(hs))

Accept(c) ==
    /\ conn[c].pc = "idle"
    /\ \E raw \in RawIds :
         LET cn == acceptedConn(raw)
         IN  /\ conn' = [conn EXCEPT ![c] = cn]
             /\ ctrlCh' = IF cn.pc = "waitRes"
                          THEN [ctrlCh EXCEPT ![cn.id.ActorName] =
                                   @ \cup {routineCmd(c, cn.id.Id)}]
                          ELSE ctrlCh
    /\ UNCHANGED <<resCh, queue, acceptErrs, caller, qee, beeVars>>

\* The control loop of actor a takes one command and answers it.
ControlLoop(a) ==
    /\ \E cmd \in ctrlCh[a] :
         /\ resCh[cmd.from] = NoRes
         /\ ctrlCh' = [ctrlCh EXCEPT ![a] = @ \ {cmd}]
         /\ resCh' = [resCh EXCEPT ![cmd.from] = process(qee[a], a, cmd).res]
         /\ qee' = [qee EXCEPT ![a] = process(qee[a], a, cmd).q]
    /\ UNCHANGED <<conn, queue, acceptErrs, caller, beeVars>>

\* localBee.Lock up to the receive on its result channel.
CallLock(k) ==
    /\ caller[k].pc = "idle"
    /\ caller[k].n < MaxCmds
    /\ \E ms \in CellSets :
         /\ ctrlCh' = [ctrlCh EXCEPT ![BeeActor] = @ \cup {lockMappedCellsCmd(k, ms)}]
         /\ caller' = [caller EXCEPT ![k].pc = "wait", ![k].cmd = "lock",
                                     ![k].n = @ + 1]
    /\ UNCHANGED <<conn, resCh, queue, acceptErrs, qee, beeVars>>

\* localBee.StartDetached up to the receive on its result channel.
CallStartDetached(k) ==
    /\ caller[k].pc = "idle"
    /\ caller[k].n < MaxCmds
    /\ \E h \in DetachedHandlers :
         /\ ctrlCh' = [ctrlCh EXCEPT ![BeeActor] = @ \cup {startDetachedCmd(k, h)}]
         /\ caller' = [caller EXCEPT ![k].pc = "wait", ![k].cmd = "startDetached",
                                     ![k].n = @ + 1]
    /\ UNCHANGED <<conn, resCh, queue, acceptErrs, qee, beeVars>>

\* Lock and StartDetached taking the result off the call's result channel.
BeeRecv(k) ==
    /\ caller[k].pc = "wait"
    /\ resCh[k] # NoRes
    /\ caller' = [caller EXCEPT ![k].pc = "idle", ![k].res = resCh[k]]
    /\ resCh' = [resCh EXCEPT ![k] = NoRes]
    /\ UNCHANGED <<conn, ctrlCh, queue, acceptErrs, qee, beeVars>>

RecvResult(c) ==
    /\ conn[c].pc = "waitRes"
    /\ resCh[c] # NoRes
    /\ conn' = [conn EXCEPT ![c] = onResult(@, resCh[c])]
    /\ resCh' = [resCh EXCEPT ![c] = NoRes]
    /\ UNCHANGED <<ctrlCh, queue, acceptErrs, caller, qee, beeVars>>

\* The decode loop going on after a Decode that failed.
onDecodeErrorContinue(cn) == [cn EXCEPT !.failed = TRUE]

\* The decode loop on a Decode that failed: the session returns.
onDecodeError(cn) == [cn EXCEPT !.pc = "closed", !.failed = TRUE]

\* One round of the decode loop: a Msg of type t, the n-th of the session.
DecodeMsg(c) ==
    /\ conn[c].pc = "loop"
    /\ conn[c].ndec < MaxStream
    /\ \E t \in MsgTypes :
         LET cn == lookupHandlers(conn[c], t)
             m == [type |-> t, conn |-> c, n |-> conn[c].ndec + 1]
         IN  /\ conn' = [conn EXCEPT ![c] = [cn EXCEPT !.ndec = @ + 1,
                                                      !.types = Append(@, t)]]
             /\ queue' = [queue EXCEPT ![cn.rcvr] =
                             enqueAll(@, m, cn.handlers[t].hs)]
    /\ UNCHANGED <<ctrlCh, resCh, acceptErrs, caller, qee, beeVars>>

\* The decode loop reading bytes that do not decode, or the end of the stream.
DecodeError(c) ==
    /\ conn[c].pc = "loop"
    /\ conn' = [conn EXCEPT ![c] = onDecodeError(@)]
    /\ UNCHANGED <<ctrlCh, resCh, queue, acceptErrs, caller, qee, beeVars>>

\* stage.listen: l.Accept returns an error; the loop logs it and goes on.
AcceptError ==
    /\ acceptErrs < MaxAcceptErrs
    /\ acceptErrs' = acceptErrs + 1
    /\ UNCHANGED <<conn, ctrlCh, resCh, queue, caller, qee, beeVars>>

InitStage ==
    /\ conn = [c \in Conns |->
                 [pc |-> "idle", id |-> ZeroId, rcvr |-> NoRcvr, written |-> << >>,
                  handlers |-> [t \in MsgTypes |-> [ok |-> FALSE, hs |-> << >>]],
                  ndec |-> 0, types |-> << >>, failed |-> FALSE,
                  badId |-> FALSE]]
    /\ ctrlCh = [a \in Actors |-> {}]
    /\ resCh = [k \in Callers |-> NoRes]
    /\ caller = [k \in BeeCallers |-> [pc |-> "idle", cmd |-> "none", res |-> NoRes,
                                        n |-> 0]]
    /\ qee = [a \in Actors |-> [locks |-> [x \in Cells |-> 0], lastId |-> 0,
                                 served |-> << >>]]
    /\ queue = [r \in Registered |-> << >>]
    /\ acceptErrs = 0

NextStage ==
    \/ \E c \in Conns : Accept(c)
    \/ \E a \in Actors : ControlLoop(a)
    \/ \E c \in Conns : RecvResult(c)
    \/ \E c \in Conns : DecodeMsg(c)
    \/ \E c \in Conns : DecodeError(c)
    \/ AcceptError

vars == <<beeVars, stageVars>>

Init == InitBee /\ InitStage

\* The bee's transaction machine.
Spec == Init /\ [][NextBee]_vars

\* The stage's connection sessions and control loops.
SpecStage == Init /\ [][NextStage]_vars

\* The sessions that call the control loops while the bees do.
CtrlConns == {1}

\* The control loops with all their callers: the sessions' handshakes and the
\* bees' Lock and StartDetached.
NextCtrl ==
    \/ \E c \in CtrlConns : Accept(c)
    \/ \E a \in Actors : ControlLoop(a)
    \/ \E c \in Conns : RecvResult(c)
    \/ \E k \in BeeCallers : CallLock(k)
    \/ \E k \in BeeCallers : CallStartDetached(k)
    \/ \E k \in BeeCallers : BeeRecv(k)

SpecCtrl == Init /\ [][NextCtrl]_vars

\* ------------------------------------------------------------ properties
Ids(ms) == {ms[i].id : i \in 1..Len(ms)}

\* The calls the operation that ran last made on the collaborators.
LastCalls == SubSeq(calls, last.ncalls + 1, Len(calls))

\* The messages the operation that ran last handed to the hive.
LastSent == SubSeq(sent, last.nsent + 1, Len(sent))

Called(cs, op) == \E i \in 1..Len(cs) : cs[i].op = op

\* The Msg the operation that ran last built from its arguments.
LastMsg == newMsgFromData(last.arg.id, Self, last.arg.to)

\* C1: BeginTx on a bee whose transaction is Open returns an error and leaves
\* the transaction record untouched (Status, Seq, Generation, Msgs), and the
\* state layer's BeginTx is not called.
C1_BeginWhileOpenRejected ==
    (last.op = "BeginTx" /\ IsOpen(last.pre)) =>
        /\ last.err = "open"
        /\ tx = last.pre
        /\ IsOpen(tx)
        /\ LastCalls = << >>
        /\ st = last.prest

C1_Witness ==
    /\ last.op = "BeginTx"
    /\ IsOpen(last.pre)
    /\ Len(last.pre.Msgs) >= 1
    /\ last.pre.Seq >= 2

\* C2: when CommitTx on an Open transaction returns no error, the messages
\* it handed to the hive are exactly the buffered messages, each once and in
\* buffering order, for every replication factor; and no message is ever
\* handed to the hive twice.
C2_CommitForwardsOnceInOrder ==
    /\ (last.op = "CommitTx" /\ last.err = "nil" /\ IsOpen(last.pre)) =>
           LastSent = last.pre.Msgs
    /\ \A i, j \in 1..Len(sent) : sent[i].id = sent[j].id => i = j

C2_Witness ==
    /\ last.op = "CommitTx"
    /\ last.err = "nil"
    /\ Len(last.pre.Msgs) >= 2
    /\ last.pre.Seq >= 2
    /\ rf < 2

\* C3: when CommitTx fails because replication failed, none of the buffered
\* messages is forwarded, the state layer's pending writes are rolled back and
\* not committed, and the committed state is unchanged.
C3_ReplicationFailureHasNoEffect ==
    (last.op = "CommitTx" /\ last.err = "replication" /\ IsOpen(last.pre)) =>
        /\ LastSent = << >>
        /\ Ids(last.pre.Msgs) \cap Ids(sent) = {}
        /\ ~Called(LastCalls, "StCommitTx")
        /\ Called(LastCalls, "StAbortTx")
        /\ st.dict = last.prest.dict

\* C4: Emit and SendToBee buffer the message and send nothing while the
\* transaction is Open, and send it at once and buffer nothing otherwise; a
\* message still buffered has not reached the hive.
C4_BufferOrEmit ==
    /\ (last.op \in {"Emit", "SendToBee"}) =>
           IF IsOpen(last.pre)
           THEN tx = AddMsg(last.pre, LastMsg) /\ LastSent = << >>
           ELSE tx = last.pre /\ LastSent = <<LastMsg>>
    /\ Ids(tx.Msgs) \cap Ids(sent) = {}

C4_Witness ==
    /\ last.op = "SendToBee"
    /\ IsOpen(last.pre)
    /\ Len(tx.Msgs) >= 2

\* C5: the Seq of every transaction BeginTx opened is strictly greater than
\* the Seq of every transaction opened before it on the bee.
C5_SeqStrictlyIncreases ==
    \A i, j \in 1..Len(begun) : i < j => begun[i] < begun[j]

C5_Witness ==
    /\ Len(begun) >= 2
    /\ Called(calls, "StAbortTx")

\* C6: with a replication factor below 2, CommitTx on an Open transaction
\* never submits the transaction to replication and cannot fail on it.
C6_FastPathSkipsReplication ==
    (last.op = "CommitTx" /\ IsOpen(last.pre) /\ rf < 2) =>
        /\ ~Called(LastCalls, "replicateTx")
        /\ last.err # "replication"

\* C7: CommitTx does not succeed when the generation recorded at BeginTx
\* differs from the colony's generation at the time of the commit; the
\* buffered messages and writes then take no effect.
C7_StaleGenerationFailsCommit ==
    (last.op = "CommitTx" /\ IsOpen(last.pre) /\ last.pre.Generation # last.gen) =>
        /\ last.err # "nil"
        /\ LastSent = << >>
        /\ st.dict = last.prest.dict

\* C8: AbortTx without an Open transaction changes nothing, sends nothing
\* and makes no call on the state layer; AbortTx on an Open transaction
\* empties Msgs and Ops, rolls the state layer back, leaves the transaction
\* Closed and sends nothing; no message discarded by AbortTx is ever sent.
C8_AbortTx ==
    /\ (last.op = "AbortTx") =>
           IF ~IsOpen(last.pre)
           THEN /\ tx = last.pre
                /\ st = last.prest
                /\ LastSent = << >>
                /\ LastCalls = << >>
           ELSE /\ tx = [last.pre EXCEPT !.Status = TxClosed, !.Msgs = << >>,
                                         !.Ops = NoOps]
                /\ st = [last.prest EXCEPT !.open = FALSE, !.ops = NoOps]
                /\ LastSent = << >>
                /\ Len(LastCalls) = 1
                /\ LastCalls[1].op = "StAbortTx"
    /\ dropped \cap Ids(sent) = {}

C8_Witness ==
    /\ dropped # {}
    /\ last.op = "CommitTx"
    /\ last.err = "nil"
    /\ Len(last.pre.Msgs) >= 1

\* C9: ReplyTo on a NoReply message returns an error and neither sends nor
\* buffers; on any other message it returns no error and does what
\* SendToBee to the message's sender does.
C9_ReplyTo ==
    (last.op = "ReplyTo") =>
        IF last.arg.noReply
        THEN /\ last.err = "noreply"
             /\ tx = last.pre
             /\ LastSent = << >>
        ELSE /\ last.err = "nil"
             /\ last.arg.to \in Peers
             /\ IF IsOpen(last.pre)
                THEN tx = AddMsg(last.pre, LastMsg) /\ LastSent = << >>
                ELSE tx = last.pre /\ LastSent = <<LastMsg>>

C9_Witness ==
    /\ last.op = "ReplyTo"
    /\ last.arg.noReply
    /\ IsOpen(last.pre)
    /\ Len(last.pre.Msgs) >= 1

\* The RcvrId names an actor of the stage and a receiver its control loop has.
Resolves(id) ==
    /\ id.ActorName \in Actors
    /\ [actor |-> id.ActorName, id |-> id.Id] \in Registered

\* Some msgAndHandler pair in a queue came from connection c.
Enqueued(c) ==
    \E r \in Registered : \E i \in 1..Len(queue[r]) : queue[r][i].msg.conn = c

\* C10: a session writes the acknowledgment (one true) only once the control
\* loop resolved its RcvrId to a receiver; a session whose actor name is
\* unknown or whose receiver is not found writes nothing, decodes and enqueues
\* no message, and ends closed.
C10_AckOnlyWhenResolved ==
    \A c \in Conns :
        /\ conn[c].written # << >> =>
              /\ conn[c].written = <<TRUE>>
              /\ Resolves(conn[c].id)
              /\ conn[c].rcvr = [actor |-> conn[c].id.ActorName,
                                 id |-> conn[c].id.Id]
        /\ (conn[c].pc # "idle" /\ ~Resolves(conn[c].id)) =>
              /\ conn[c].written = << >>
              /\ conn[c].ndec = 0
              /\ ~conn[c].failed
              /\ ~Enqueued(c)
              /\ \/ conn[c].pc = "closed"
                 \/ conn[c].pc = "waitRes" /\ ~actorErr(conn[c].id.ActorName)

C10_Witness ==
    \E c, d \in Conns :
        /\ conn[c].pc = "closed"
        /\ conn[c].id = [ActorName |-> "Counter", Id |-> 999]
        /\ conn[d].pc = "closed"
        /\ conn[d].id.ActorName = "Ghost"
        /\ resCh[c] = NoRes

\* ---------------------------------------------- properties of the commit
\* The operation that ran last is a CommitTx that found the transaction Open.
Committing == last.op = "CommitTx" /\ IsOpen(last.pre)

\* The positions of LastCalls holding a call of op.
At(op) == {i \in 1..Len(LastCalls) : LastCalls[i].op = op}

\* C14: when the local commit fails after replication accepted the
\* transaction, CommitTx ends the process: it returns neither an error nor
\* success, and makes no call after the failed state-layer commit (no second
\* commit, no notification).
C14_LocalCommitFaultIsFatal ==
    (Committing /\ last.arg.r /\ ~last.arg.c2) =>
        /\ fatal
        /\ last.err = "fatal"
        /\ LastCalls[Len(LastCalls)].op = "StCommitTx"
        /\ \A i \in At("replicateTx") :
               Cardinality({j \in At("StCommitTx") : j > i}) = 1
        /\ At("notifyCommitTx") = {}

C14_Witness ==
    /\ Committing
    /\ last.arg.r
    /\ ~last.arg.c2
    /\ rf >= 2
    /\ Len(last.pre.Msgs) >= 1

\* C15: after a CommitTx or an AbortTx that returned, whatever its result
\* and path, the transaction is Closed and holds no buffered message; a
\* BeginTx on a Closed transaction is not rejected as already open.
C15_ClosedAfterCommitOrAbort ==
    /\ (last.op \in {"CommitTx", "AbortTx"} /\ last.err # "fatal") =>
           /\ ~IsOpen(tx)
           /\ tx.Msgs = << >>
    /\ (last.op = "BeginTx" /\ ~IsOpen(last.pre)) => last.err # "open"
    /\ ~IsOpen(tx) => tx.Msgs = << >>

C15_Witness ==
    /\ Committing
    /\ last.err = "replication"
    /\ rf < 2
    /\ Len(last.pre.Msgs) >= 1

\* C16: with a replication factor of 2 or more, CommitTx first submits
\* {Generation, Seq, Msgs, Ops} to replication; on failure it forwards nothing
\* and does not commit the state layer; on success it forwards every buffered
\* message, in order, and then commits the state layer.
C16_ReplicateFlushApply ==
    (Committing /\ rf >= 2) =>
        LET n == Len(last.pre.Msgs)
        IN  /\ LastCalls[1].op = "replicateTx"
            /\ LastCalls[1].arg = [Generation |-> last.gen, Seq |-> last.pre.Seq,
                                   Msgs |-> last.pre.Msgs, Ops |-> last.prest.ops]
            /\ At("replicateTx") = {1}
            /\ IF last.arg.r
               THEN /\ \A i \in 1..n :
                          /\ LastCalls[i + 1].op = "emitMsg"
                          /\ LastCalls[i + 1].arg = last.pre.Msgs[i].id
                    /\ LastCalls[n + 2].op = "StCommitTx"
                    /\ At("emitMsg") = 2..(n + 1)
                    /\ At("StCommitTx") = {n + 2}
                    /\ LastSent = last.pre.Msgs
               ELSE /\ At("emitMsg") = {}
                    /\ At("StCommitTx") = {}
                    /\ LastSent = << >>

C16_Witness ==
    /\ Committing
    /\ rf >= 2
    /\ last.arg.r
    /\ Len(last.pre.Msgs) >= 2
    /\ last.prest.ops # NoOps

\* C18: after replication and the local commit succeeded, CommitTx notifies
\* the replicas of the Seq BeginTx gave the transaction; whether or not the
\* notification fails, CommitTx returns no error and nothing is rolled back.
C18_NotifyCommittedSeq ==
    (Committing /\ last.arg.r /\ last.arg.c2) =>
        /\ LastCalls[Len(LastCalls)].op = "notifyCommitTx"
        /\ LastCalls[Len(LastCalls)].arg = last.pre.Seq
        /\ last.pre.Seq = begun[Len(begun)]
        /\ Cardinality(At("notifyCommitTx")) = 1
        /\ last.err = "nil"
        /\ ~fatal
        /\ At("StAbortTx") = {}
        /\ Ids(last.pre.Msgs) \subseteq Ids(sent)

C18_Witness ==
    /\ Committing
    /\ last.arg.r
    /\ last.arg.c2
    /\ ~last.arg.n
    /\ rf >= 2
    /\ Len(last.pre.Msgs) >= 1

\* The state layer's hooks called so far, in order.
Hooks == SelectSeq(calls, LAMBDA c : c.op \in {"StBeginTx", "StCommitTx", "StAbortTx"})

Ends == {i \in 1..Len(Hooks) : Hooks[i].op \in {"StCommitTx", "StAbortTx"}}

\* C19: every StCommitTx and StAbortTx directly follows a StBeginTx, so that
\* no transaction of the state layer is ended twice and none is ended while
\* none was begun; and every transaction BeginTx opened is ended exactly once
\* by the time the bee's transaction is Closed.
C19_StateHooksPaired ==
    /\ \A i \in Ends : i > 1 /\ Hooks[i - 1].op = "StBeginTx"
    /\ Cardinality(Ends) = IF IsOpen(tx) THEN Len(begun) - 1 ELSE Len(begun)

\* C20: CommitTx on an Open transaction returns no error only if every
\* state-layer commit it called succeeded.
C20_StateCommitErrorNotDiscarded ==
    (Committing /\ last.err = "nil") =>
        /\ (rf < 2 => last.arg.c1)
        /\ last.arg.c2

\* ------------------------------------------- properties of the sessions
\* The pairs of queue q that connection c enqueued, in queue order.
From(q, c) == SelectSeq(q, LAMBDA p : p.msg.conn = c)

\* C11: in every queue the pairs of one session stand in decode order (all
\* pairs of a message before any pair of a message decoded after it), and a
\* session's pairs are all in the queue of the receiver its handshake
\* resolved.
C11_DispatchInDecodeOrder ==
    \A c \in Conns :
        /\ \A r \in Registered :
               LET ps == From(queue[r], c)
               IN  /\ \A i, j \in 1..Len(ps) : i < j => ps[i].msg.n <= ps[j].msg.n
                   /\ ps # << >> =>
                          /\ r = conn[c].rcvr
                          /\ r = [actor |-> conn[c].id.ActorName,
                                  id |-> conn[c].id.Id]
        /\ conn[c].ndec > 0 =>
               {p.msg.n : p \in {From(queue[conn[c].rcvr], c)[i] :
                                    i \in 1..Len(From(queue[conn[c].rcvr], c))}}
                   = 1..conn[c].ndec

C11_Witness ==
    \E c, d \in Conns :
        /\ c # d
        /\ conn[c].ndec >= 2
        /\ conn[d].ndec >= 1
        /\ conn[c].rcvr = conn[d].rcvr
        /\ \E i \in 2..Len(queue[conn[c].rcvr]) :
               /\ queue[conn[c].rcvr][i].msg.conn = c
               /\ queue[conn[c].rcvr][i - 1].msg.conn = d

\* The handlers registered for (actor a, message type t).
RegisteredFor(a, t) ==
    {Mappers[t][i].handler : i \in {k \in 1..Len(Mappers[t]) : Mappers[t][k].actor = a}}

\* C12: for the n-th message a resolved session decoded, of type t, the
\* receiver's queue holds exactly one pair for every handler registered for
\* (the session's actor, t) and no pair for any other handler; the same for a
\* later message of a type already seen in the session.
C12_OnePairPerHandler ==
    \A c \in Conns : \A n \in 1..conn[c].ndec :
        LET t == conn[c].types[n]
            ps == SelectSeq(From(queue[conn[c].rcvr], c), LAMBDA p : p.msg.n = n)
        IN  /\ \A i \in 1..Len(ps) : ps[i].msg.type = t
            /\ {ps[i].handler : i \in 1..Len(ps)} =
                   RegisteredFor(conn[c].id.ActorName, t)
            /\ \A i, j \in 1..Len(ps) : ps[i].handler = ps[j].handler => i = j

C12_Witness ==
    \E c \in Conns :
        /\ conn[c].ndec >= 2
        /\ conn[c].types[1] = "Incr"
        /\ conn[c].types[2] = "Incr"
        /\ conn[c].id.ActorName = "Counter"

Pending(k) == UNION {{cmd \in ctrlCh[a] : cmd.from = k} : a \in Actors}

\* Caller k is blocked in a call, and the command it is blocked on.
Waiting(k) ==
    IF k \in Conns THEN conn[k].pc = "waitRes" ELSE caller[k].pc = "wait"

Issued(k) == IF k \in Conns THEN "findRcvr" ELSE caller[k].cmd

\* The results that answer a command named cmd.
Answers(cmd) ==
    CASE cmd = "findRcvr" -> {"rcvr", "nil"}
      [] cmd = "lock" -> {"ok", "conflict"}
      [] cmd = "startDetached" -> {"bee"}
      [] OTHER -> {}

\* The commands of caller k a control loop processed.
ServedOf(k) ==
    UNION {{i \in 1..Len(qee[a].served) : qee[a].served[i].from = k} : a \in Actors}

\* C13: a blocked caller has exactly one command or one result outstanding,
\* and a caller that is not blocked has none; the result on a caller's slot,
\* and the result a bee took, answers the command that caller issued (for a
\* session, with the receiver it asked for); every command was processed
\* once, one at a time: no cell is owned by two bees, a cell's owner is a bee
\* that asked for it, and no two StartDetached calls got the same BeeID.
C13_OneResultPerCommandOnOwnSlot ==
    /\ \A k \in Callers :
          /\ Cardinality(Pending(k)) + (IF resCh[k] = NoRes THEN 0 ELSE 1)
                 = IF Waiting(k) THEN 1 ELSE 0
          /\ resCh[k] # NoRes => resCh[k].kind \in Answers(Issued(k))
          /\ \A cmd \in Pending(k) : cmd.cmd = Issued(k)
          /\ (k \in Conns /\ resCh[k].kind = "rcvr") =>
                 /\ resCh[k].actor = conn[k].id.ActorName
                 /\ resCh[k].id = conn[k].id.Id
    /\ \A k \in BeeCallers :
          /\ caller[k].res # NoRes => caller[k].res.kind \in {"ok", "conflict", "bee"}
          /\ (caller[k].pc = "idle" /\ caller[k].n > 0) =>
                 caller[k].res.kind \in Answers(caller[k].cmd)
          /\ Cardinality(ServedOf(k)) + Cardinality(Pending(k)) = caller[k].n
    /\ \A x \in Cells :
          qee[BeeActor].locks[x] # 0 =>
              \E i \in ServedOf(qee[BeeActor].locks[x]) :
                  /\ qee[BeeActor].served[i].cmd = "lock"
                  /\ x \in qee[BeeActor].served[i].cells
    /\ \A j, k \in BeeCallers :
          (j # k /\ caller[j].res.kind = "bee" /\ caller[k].res.kind = "bee")
              => caller[j].res.id # caller[k].res.id

C13_Witness ==
    /\ conn[1].pc = "loop"
    /\ conn[1].id.ActorName = BeeActor
    /\ caller[3].res.kind = "conflict"
    /\ caller[4].res.kind = "ok"
    /\ Len(qee[BeeActor].served) >= 3
    /\ qee[BeeActor].served[1].cmd = "lock"
    /\ qee[BeeActor].served[2].cmd = "findRcvr"

====
